---- MODULE Spec2Model ----
(***************************************************************************)
(* Model of CPP/data_structures/advanced_segment_tree.cpp:                 *)
(* AdvancedSegmentTree<int>, a sum segment tree with lazy propagation.     *)
(* The private recursive members are operators over a machine record       *)
(* holding the two vectors; each public member is one action.              *)
(***************************************************************************)
EXTENDS Integers, Sequences, FiniteSets, TLC

\* ---- bounds of the model ------------------------------------------------
MaxN == 3          \* longest input sequence
MaxOps == 2        \* public calls issued after construction
StackLimit == 8    \* frames the call stack holds before it is exhausted
MaxBitOps == 3     \* calls issued on the index tree after its construction

\* ---- program constants --------------------------------------------------
INT_MAX == 2147483647

Vals == {0, 1}
Deltas == {-1, 2}
PointVals == {0, 5}

\* C++ integer division truncates toward zero
CDiv(a, b) == IF a >= 0 THEN a \div b ELSE -((-a) \div b)

Max(a, b) == IF a >= b THEN a ELSE b
Min(a, b) == IF a <= b THEN a ELSE b

\* std::vector<T> of size k, value-initialised, indexed 0..k-1
Vec(k) == [i \in 0..(k - 1) |-> 0]

\* operator[] performs no bounds check; an access outside the storage is
\* recorded by the caller in acc, the read value is then arbitrary and the
\* write is lost (the object is never used after such an access)
Get(v, i) == IF i \in DOMAIN v THEN v[i] ELSE 0
Put(v, i, x) == IF i \in DOMAIN v THEN [v EXCEPT ![i] = x] ELSE v

\* The object under execution: the two vectors, plus what one call did:
\* acc = indices of tree/lazy it read or wrote, tacc = those of them at which
\* it read or wrote tree, pushed = nodes whose non-zero pending it
\* push-applied, deep = deepest recursion level, over = the stack was
\* exhausted, ret = the value returned. With snap set, log lists the
\* updateLazy calls in order, each with the two vectors as it left them.
Mach(t, z) ==
    [tree |-> t, lazy |-> z, acc |-> {}, tacc |-> {}, pushed |-> {}, deep |-> 0,
     over |-> FALSE, ret |-> 0, snap |-> FALSE, log |-> <<>>]

Enter(m, d, idxs) == [m EXCEPT !.acc = @ \cup idxs, !.deep = Max(@, d)]

\* tree[i] is read or written for every i in idxs
Use(m, idxs) == [m EXCEPT !.acc = @ \cup idxs, !.tacc = @ \cup idxs]

\* an updateLazy call on node has returned, leaving the object as m
Logged(m, node, start, end) ==
    IF m.snap
    THEN [m EXCEPT !.log = Append(@, [node |-> node, start |-> start, end |-> end,
                                      tree |-> m.tree, lazy |-> m.lazy])]
    ELSE m

Oob(m) == \E i \in m.acc : i \notin DOMAIN m.tree

\* ---- private members ----------------------------------------------------

\* build that fills the leaves but never combines them into the parents
RECURSIVE build_leavesOnly(_, _, _, _, _, _)
build_leavesOnly(m, arr, node, start, end, d) ==
    IF m.over THEN m
    ELSE IF d > StackLimit THEN [m EXCEPT !.over = TRUE]
    ELSE IF start = end
    THEN LET m0 == Enter(m, d, {node})
         IN  [m0 EXCEPT !.tree = Put(@, node, Get(arr, start))]
    ELSE LET mid == CDiv(start + end, 2)
             m1 == build_leavesOnly(Enter(m, d, {}), arr, 2 * node, start, mid, d + 1)
         IN  build_leavesOnly(m1, arr, 2 * node + 1, mid + 1, end, d + 1)

RECURSIVE build(_, _, _, _, _, _)
build(m, arr, node, start, end, d) ==
    IF m.over THEN m
    ELSE IF d > StackLimit THEN [m EXCEPT !.over = TRUE]
    ELSE IF start = end
    THEN LET m0 == Use(Enter(m, d, {}), {node})
         IN  [m0 EXCEPT !.tree = Put(@, node, Get(arr, start))]
    ELSE LET mid == CDiv(start + end, 2)
             m1 == build(Enter(m, d, {}), arr, 2 * node, start, mid, d + 1)
             m2 == build(m1, arr, 2 * node + 1, mid + 1, end, d + 1)
             m3 == Use(m2, {node, 2 * node, 2 * node + 1})
         IN  IF m2.over THEN m2
             ELSE [m3 EXCEPT !.tree =
                      Put(@, node, Get(m2.tree, 2 * node) + Get(m2.tree, 2 * node + 1))]

\* updateLazy that folds the delta into the node but never hands it down
updateLazy_noPush(m, node, start, end) ==
    LET m0 == Enter(m, 0, {node})
    IN  IF Get(m.lazy, node) # 0
        THEN LET p == Get(m.lazy, node)
                 t1 == Put(m.tree, node, Get(m.tree, node) + p * (end - start + 1))
             IN  [m0 EXCEPT !.tree = t1, !.lazy = Put(m.lazy, node, 0),
                            !.pushed = @ \cup {node}]
        ELSE m0

\* updateLazy that hands the delta down without testing start != end
updateLazy_leafToo(m, node, start, end) ==
    LET m0 == Enter(m, 0, {node})
    IN  IF Get(m.lazy, node) # 0
        THEN LET p == Get(m.lazy, node)
                 t1 == Put(m.tree, node, Get(m.tree, node) + p * (end - start + 1))
                 za == Put(m.lazy, 2 * node, Get(m.lazy, 2 * node) + p)
                 z1 == Put(za, 2 * node + 1, Get(za, 2 * node + 1) + p)
             IN  [m0 EXCEPT !.tree = t1, !.lazy = Put(z1, node, 0),
                            !.acc = @ \cup {2 * node, 2 * node + 1},
                            !.tacc = @ \cup {node},
                            !.pushed = @ \cup {node}]
        ELSE m0

\* void updateLazy(int node, int start, int end)
updateLazy(m, node, start, end) ==
    LET m0 == Enter(m, 0, {node})
    IN  IF Get(m.lazy, node) # 0
        THEN LET p == Get(m.lazy, node)
                 t1 == Put(m.tree, node, Get(m.tree, node) + p * (end - start + 1))
                 z1 == IF start # end
                       THEN LET za == Put(m.lazy, 2 * node, Get(m.lazy, 2 * node) + p)
                            IN  Put(za, 2 * node + 1, Get(za, 2 * node + 1) + p)
                       ELSE m.lazy
                 z2 == Put(z1, node, 0)
                 kids == IF start # end THEN {2 * node, 2 * node + 1} ELSE {}
             IN  Logged([m0 EXCEPT !.tree = t1, !.lazy = z2, !.acc = @ \cup kids,
                                   !.tacc = @ \cup {node},
                                   !.pushed = @ \cup {node}],
                        node, start, end)
        ELSE Logged(m0, node, start, end)

\* updateRange whose disjointness test is off by one at the right end
RECURSIVE updateRange_offByOne(_, _, _, _, _, _, _, _)
updateRange_offByOne(m, node, start, end, l, r, val, d) ==
    IF m.over THEN m
    ELSE IF d > StackLimit THEN [m EXCEPT !.over = TRUE]
    ELSE
    LET m0 == updateLazy(Enter(m, d, {}), node, start, end)
    IN  IF start >= r \/ end < l THEN m0
        ELSE IF start >= l /\ end <= r
        THEN LET m1 == [m0 EXCEPT !.lazy = Put(@, node, Get(@, node) + val)]
             IN  updateLazy(m1, node, start, end)
        ELSE LET mid == CDiv(start + end, 2)
                 m1 == updateRange_offByOne(m0, 2 * node, start, mid, l, r, val, d + 1)
                 m2 == updateRange_offByOne(m1, 2 * node + 1, mid + 1, end, l, r, val, d + 1)
                 m3 == updateLazy(m2, 2 * node, start, mid)
                 m4 == updateLazy(m3, 2 * node + 1, mid + 1, end)
             IN  [m4 EXCEPT !.tree =
                     Put(@, node, Get(m4.tree, 2 * node) + Get(m4.tree, 2 * node + 1)),
                            !.acc = @ \cup {node}]

\* updateRange that returns from a partly covered node without recomputing
\* its aggregate from the children
RECURSIVE updateRange_noRecombine(_, _, _, _, _, _, _, _)
updateRange_noRecombine(m, node, start, end, l, r, val, d) ==
    IF m.over THEN m
    ELSE IF d > StackLimit THEN [m EXCEPT !.over = TRUE]
    ELSE
    LET m0 == updateLazy(Enter(m, d, {}), node, start, end)
    IN  IF start > r \/ end < l THEN m0
        ELSE IF start >= l /\ end <= r
        THEN LET m1 == [m0 EXCEPT !.lazy = Put(@, node, Get(@, node) + val)]
             IN  updateLazy(m1, node, start, end)
        ELSE LET mid == CDiv(start + end, 2)
                 m1 == updateRange_noRecombine(m0, 2 * node, start, mid, l, r, val, d + 1)
                 m2 == updateRange_noRecombine(m1, 2 * node + 1, mid + 1, end, l, r, val,
                                               d + 1)
                 m3 == updateLazy(m2, 2 * node, start, mid)
             IN  updateLazy(m3, 2 * node + 1, mid + 1, end)

\* updateRange that stops only at leaves: a covered internal node is descended
\* into like a partly covered one
RECURSIVE updateRange_noDefer(_, _, _, _, _, _, _, _)
updateRange_noDefer(m, node, start, end, l, r, val, d) ==
    IF m.over THEN m
    ELSE IF d > StackLimit THEN [m EXCEPT !.over = TRUE]
    ELSE
    LET m0 == updateLazy(Enter(m, d, {}), node, start, end)
    IN  IF start > r \/ end < l THEN m0
        ELSE IF start = end
        THEN LET m1 == [m0 EXCEPT !.lazy = Put(@, node, Get(@, node) + val)]
             IN  updateLazy(m1, node, start, end)
        ELSE LET mid == CDiv(start + end, 2)
                 m1 == updateRange_noDefer(m0, 2 * node, start, mid, l, r, val, d + 1)
                 m2 == updateRange_noDefer(m1, 2 * node + 1, mid + 1, end, l, r, val, d + 1)
                 m3 == updateLazy(m2, 2 * node, start, mid)
                 m4 == Use(updateLazy(m3, 2 * node + 1, mid + 1, end),
                           {node, 2 * node, 2 * node + 1})
             IN  [m4 EXCEPT !.tree =
                     Put(@, node, Get(m4.tree, 2 * node) + Get(m4.tree, 2 * node + 1))]

\* updateRange that inspects a node without push-applying it first
RECURSIVE updateRange_noEntryPush(_, _, _, _, _, _, _, _)
updateRange_noEntryPush(m, node, start, end, l, r, val, d) ==
    IF m.over THEN m
    ELSE IF d > StackLimit THEN [m EXCEPT !.over = TRUE]
    ELSE
    LET m0 == Enter(m, d, {})
    IN  IF start > r \/ end < l THEN m0
        ELSE IF start >= l /\ end <= r
        THEN LET m1 == [m0 EXCEPT !.lazy = Put(@, node, Get(@, node) + val)]
             IN  updateLazy(m1, node, start, end)
        ELSE LET mid == CDiv(start + end, 2)
                 m1 == updateRange_noEntryPush(m0, 2 * node, start, mid, l, r, val, d + 1)
                 m2 == updateRange_noEntryPush(m1, 2 * node + 1, mid + 1, end, l, r, val, d + 1)
                 m3 == updateLazy(m2, 2 * node, start, mid)
                 m4 == Use(updateLazy(m3, 2 * node + 1, mid + 1, end),
                           {node, 2 * node, 2 * node + 1})
             IN  [m4 EXCEPT !.tree =
                     Put(@, node, Get(m4.tree, 2 * node) + Get(m4.tree, 2 * node + 1))]

\* void updateRange(int node, int start, int end, int l, int r, T val)
RECURSIVE updateRange(_, _, _, _, _, _, _, _)
updateRange(m, node, start, end, l, r, val, d) ==
    IF m.over THEN m
    ELSE IF d > StackLimit THEN [m EXCEPT !.over = TRUE]
    ELSE
    LET m0 == updateLazy(Enter(m, d, {}), node, start, end)
    IN  IF start > r \/ end < l THEN m0
        ELSE IF start >= l /\ end <= r
        THEN LET m1 == [m0 EXCEPT !.lazy = Put(@, node, Get(@, node) + val)]
             IN  updateLazy(m1, node, start, end)
        ELSE LET mid == CDiv(start + end, 2)
                 m1 == updateRange(m0, 2 * node, start, mid, l, r, val, d + 1)
                 m2 == updateRange(m1, 2 * node + 1, mid + 1, end, l, r, val, d + 1)
                 m3 == updateLazy(m2, 2 * node, start, mid)
                 m4 == Use(updateLazy(m3, 2 * node + 1, mid + 1, end),
                           {node, 2 * node, 2 * node + 1})
             IN  [m4 EXCEPT !.tree =
                     Put(@, node, Get(m4.tree, 2 * node) + Get(m4.tree, 2 * node + 1))]

\* queryRange that stores the partial answer p1 + p2 back into the node, as
\* the two updates do with the children's aggregates
RECURSIVE queryRange_storeBack(_, _, _, _, _, _, _)
queryRange_storeBack(m, node, start, end, l, r, d) ==
    IF m.over THEN m
    ELSE IF d > StackLimit THEN [m EXCEPT !.over = TRUE]
    ELSE IF start > r \/ end < l THEN [Enter(m, d, {}) EXCEPT !.ret = 0]
    ELSE
    LET m0 == updateLazy(Enter(m, d, {}), node, start, end)
    IN  IF start >= l /\ end <= r
        THEN [m0 EXCEPT !.ret = Get(m0.tree, node)]
        ELSE LET mid == CDiv(start + end, 2)
                 m1 == queryRange_storeBack(m0, 2 * node, start, mid, l, r, d + 1)
                 m2 == queryRange_storeBack(m1, 2 * node + 1, mid + 1, end, l, r, d + 1)
             IN  [m2 EXCEPT !.ret = m1.ret + m2.ret,
                            !.tree = Put(@, node, m1.ret + m2.ret)]

\* queryRange whose right half starts at mid instead of mid + 1
RECURSIVE queryRange_midTwice(_, _, _, _, _, _, _)
queryRange_midTwice(m, node, start, end, l, r, d) ==
    IF m.over THEN m
    ELSE IF d > StackLimit THEN [m EXCEPT !.over = TRUE]
    ELSE IF start > r \/ end < l THEN [Enter(m, d, {}) EXCEPT !.ret = 0]
    ELSE
    LET m0 == updateLazy(Enter(m, d, {}), node, start, end)
    IN  IF start >= l /\ end <= r
        THEN [Use(m0, {node}) EXCEPT !.ret = Get(m0.tree, node)]
        ELSE LET mid == CDiv(start + end, 2)
                 m1 == queryRange_midTwice(m0, 2 * node, start, mid, l, r, d + 1)
                 m2 == queryRange_midTwice(m1, 2 * node + 1, mid, end, l, r, d + 1)
             IN  [m2 EXCEPT !.ret = m1.ret + m2.ret]

RECURSIVE queryRange(_, _, _, _, _, _, _)
queryRange(m, node, start, end, l, r, d) ==
    IF m.over THEN m
    ELSE IF d > StackLimit THEN [m EXCEPT !.over = TRUE]
    ELSE IF start > r \/ end < l THEN [Enter(m, d, {}) EXCEPT !.ret = 0]
    ELSE
    LET m0 == updateLazy(Enter(m, d, {}), node, start, end)
    IN  IF start >= l /\ end <= r
        THEN [Use(m0, {node}) EXCEPT !.ret = Get(m0.tree, node)]
        ELSE LET mid == CDiv(start + end, 2)
                 m1 == queryRange(m0, 2 * node, start, mid, l, r, d + 1)
                 m2 == queryRange(m1, 2 * node + 1, mid + 1, end, l, r, d + 1)
             IN  [m2 EXCEPT !.ret = m1.ret + m2.ret]

\* updatePoint that overwrites the leaf without push-applying on the way down
RECURSIVE updatePoint_noPush(_, _, _, _, _, _, _)
updatePoint_noPush(m, node, start, end, idx, val, d) ==
    IF m.over THEN m
    ELSE IF d > StackLimit THEN [m EXCEPT !.over = TRUE]
    ELSE
    LET m0 == Enter(m, d, {node})
    IN  IF start = end
        THEN [m0 EXCEPT !.tree = Put(@, node, val)]
        ELSE LET mid == CDiv(start + end, 2)
                 m1 == IF idx <= mid
                       THEN updatePoint_noPush(m0, 2 * node, start, mid, idx, val, d + 1)
                       ELSE updatePoint_noPush(m0, 2 * node + 1, mid + 1, end, idx, val, d + 1)
                 m2 == updateLazy(m1, 2 * node, start, mid)
                 m3 == updateLazy(m2, 2 * node + 1, mid + 1, end)
             IN  [m3 EXCEPT !.tree =
                     Put(@, node, Get(m3.tree, 2 * node) + Get(m3.tree, 2 * node + 1)),
                            !.acc = @ \cup {node}]

RECURSIVE updatePoint(_, _, _, _, _, _, _)
updatePoint(m, node, start, end, idx, val, d) ==
    IF m.over THEN m
    ELSE IF d > StackLimit THEN [m EXCEPT !.over = TRUE]
    ELSE
    LET m0 == updateLazy(Enter(m, d, {}), node, start, end)
    IN  IF start = end
        THEN [Use(m0, {node}) EXCEPT !.tree = Put(@, node, val)]
        ELSE LET mid == CDiv(start + end, 2)
                 m1 == IF idx <= mid
                       THEN updatePoint(m0, 2 * node, start, mid, idx, val, d + 1)
                       ELSE updatePoint(m0, 2 * node + 1, mid + 1, end, idx, val, d + 1)
                 m2 == updateLazy(m1, 2 * node, start, mid)
                 m3 == Use(updateLazy(m2, 2 * node + 1, mid + 1, end),
                           {node, 2 * node, 2 * node + 1})
             IN  [m3 EXCEPT !.tree =
                     Put(@, node, Get(m3.tree, 2 * node) + Get(m3.tree, 2 * node + 1))]

RECURSIVE queryMin(_, _, _, _, _, _, _)
queryMin(m, node, start, end, l, r, d) ==
    IF m.over THEN m
    ELSE IF d > StackLimit THEN [m EXCEPT !.over = TRUE]
    ELSE IF start > r \/ end < l THEN [Enter(m, d, {}) EXCEPT !.ret = INT_MAX]
    ELSE
    LET m0 == updateLazy(Enter(m, d, {}), node, start, end)
    IN  IF start >= l /\ end <= r
        THEN [Use(m0, {node}) EXCEPT !.ret = Get(m0.tree, node)]
        ELSE LET mid == CDiv(start + end, 2)
                 m1 == queryMin(m0, 2 * node, start, mid, l, r, d + 1)
                 m2 == queryMin(m1, 2 * node + 1, mid + 1, end, l, r, d + 1)
             IN  [m2 EXCEPT !.ret = Min(m1.ret, m2.ret)]

\* ---- public members as functions of the object ---------------------------

\* AdvancedSegmentTree(arr): n = arr.size(), both vectors sized 4n, build
\* constructor that sizes the two vectors to n instead of 4 * n
Constructor_sizedN(arr, nn) == build(Mach(Vec(nn), Vec(nn)), arr, 1, 0, nn - 1, 1)

\* AdvancedSegmentTree(const std::vector<T>& arr)
Constructor(arr, nn) == build(Mach(Vec(4 * nn), Vec(4 * nn)), arr, 1, 0, nn - 1, 1)

querySum(m, nn, l, r) == queryRange(m, 1, 0, nn - 1, l, r, 1)

\* getCurrentArray whose loop queries [0, i] where it means [i, i]
RECURSIVE getLoop_prefix(_, _, _)
getLoop_prefix(m, nn, i) ==
    IF i >= nn THEN m
    ELSE LET q == querySum([m EXCEPT !.ret = 0], nn, 0, i)
         IN  getLoop_prefix([q EXCEPT !.ret = [m.ret EXCEPT ![i] = q.ret]], nn, i + 1)

\* getCurrentArray: result[i] = querySum(i, i) for i = 0..n-1, in order;
\* ret holds the vector built so far
RECURSIVE getLoop(_, _, _)
getLoop(m, nn, i) ==
    IF i >= nn THEN m
    ELSE LET q == querySum([m EXCEPT !.ret = 0], nn, i, i)
         IN  getLoop([q EXCEPT !.ret = [m.ret EXCEPT ![i] = q.ret]], nn, i + 1)

getCurrentArray(m, nn) == getLoop([m EXCEPT !.ret = Vec(nn)], nn, 0)

\* ---- class BinaryIndexedTree ----------------------------------------------

\* a & ~b on non-negative a, bit by bit
RECURSIVE AndNot(_, _)
AndNot(a, b) ==
    IF a = 0 THEN 0
    ELSE (a % 2) * (1 - (b % 2)) + 2 * AndNot(a \div 2, b \div 2)

\* idx & -idx for idx >= 1: in two's complement -idx is ~(idx - 1)
LowBit(idx) == AndNot(idx, idx - 1)

\* The index tree under execution: n, the slots bit[0..n], the slots one call
\* read or wrote, and the value it returned
BitMach(nn, bt) == [n |-> nn, bit |-> bt, acc |-> {}, ret |-> 0]

RECURSIVE updateFrom_stepOne(_, _, _)
updateFrom_stepOne(b, idx, val) ==
    IF idx <= b.n
    THEN updateFrom_stepOne([b EXCEPT !.bit = Put(@, idx, Get(b.bit, idx) + val),
                                      !.acc = @ \cup {idx}],
                            idx + 1, val)
    ELSE b

\* the loop of update, from its current idx on
RECURSIVE updateFrom(_, _, _)
updateFrom(b, idx, val) ==
    IF idx <= b.n
    THEN updateFrom([b EXCEPT !.bit = Put(@, idx, Get(b.bit, idx) + val),
                              !.acc = @ \cup {idx}],
                    idx + LowBit(idx), val)
    ELSE b

\* void update(int idx, T val)
update(b, idx, val) == updateFrom(b, idx + 1, val)

\* the loop of query, from its current idx on
RECURSIVE queryFrom(_, _)
queryFrom(b, idx) ==
    IF idx > 0
    THEN queryFrom([b EXCEPT !.ret = @ + Get(b.bit, idx), !.acc = @ \cup {idx}],
                   idx - LowBit(idx))
    ELSE b

\* T query(int idx)
query(b, idx) == queryFrom([b EXCEPT !.ret = 0], idx + 1)

rangeQuery_offByOne(b, l, r) ==
    LET qr == query(b, r)
        ql == IF l > 0 THEN query(qr, l) ELSE [qr EXCEPT !.ret = 0]
    IN  [ql EXCEPT !.ret = qr.ret - ql.ret]

\* T rangeQuery(int l, int r)
rangeQuery(b, l, r) ==
    LET qr == query(b, r)
        ql == IF l > 0 THEN query(qr, l - 1) ELSE [qr EXCEPT !.ret = 0]
    IN  [ql EXCEPT !.ret = qr.ret - ql.ret]

\* the loop of the constructor, from element i on
RECURSIVE bitFill(_, _, _)
bitFill(b, arr, i) ==
    IF i < b.n THEN bitFill(update(b, i, arr[i]), arr, i + 1) ELSE b

\* BinaryIndexedTree(const std::vector<T>& arr)
BitConstructor(arr, nn) == bitFill(BitMach(nn, Vec(nn + 1)), arr, 0)

\* ---- state ---------------------------------------------------------------
VARIABLES
    phase,     \* "new" before construction, "live" after it, "dead" once the
               \* process has faulted
    n,         \* member n
    tree,      \* member tree
    lazy,      \* member lazy
    ref,       \* reference array: what the sequence is meant to hold
    lastOp,    \* the public call that ran last, with its arguments
    outcome,   \* how that call ended: "ok" (returned), "crash", "overflow"
    result,    \* the value that call returned (0 for a void call)
    probe,     \* acc, tacc, pushed, deep and over of that call
    steps,     \* public calls issued since construction
    forked,    \* a second tree B has been built from getCurrentArray()
    treeB,     \* B.tree
    lazyB,     \* B.lazy
    resultB,   \* what the last call returned on B
    fenwick    \* the BinaryIndexedTree object: live (constructed), n, bit, with
               \* ref = its reference array, op = the call that ran last,
               \* result = what it returned, acc = the slots of bit it used,
               \* steps = calls issued since construction

vars == <<phase, n, tree, lazy, ref, lastOp, outcome, result, probe, steps,
          forked, treeB, lazyB, resultB, fenwick>>

Probe(m) ==
    [acc |-> m.acc, tacc |-> m.tacc, pushed |-> m.pushed, deep |-> m.deep,
     over |-> m.over]

Call(op, l, r, val) == [op |-> op, l |-> l, r |-> r, val |-> val]

Init ==
    /\ phase = "new"
    /\ n = 0
    /\ tree = Vec(0)
    /\ lazy = Vec(0)
    /\ ref = Vec(0)
    /\ lastOp = Call("none", 0, 0, 0)
    /\ outcome = "ok"
    /\ result = 0
    /\ probe = Probe(Mach(Vec(0), Vec(0)))
    /\ steps = 0
    /\ forked = FALSE
    /\ treeB = Vec(0)
    /\ lazyB = Vec(0)
    /\ resultB = 0
    /\ fenwick = [live |-> FALSE, n |-> 0, bit |-> Vec(0), ref |-> Vec(0),
                  op |-> Call("none", 0, 0, 0), result |-> 0, acc |-> {},
                  steps |-> 0]

\* How a run that left the storage or exhausted the stack can end. The access
\* outside the storage is undefined behaviour: the process may fault at it
\* ("crash") or carry on, and a run that carries on past StackLimit frames
\* ends by exhausting the stack ("overflow").
Endings(m) ==
    IF ~Oob(m) /\ ~m.over THEN {"ok"}
    ELSE (IF Oob(m) THEN {"crash"} ELSE {})
         \cup (IF m.over THEN {"overflow"} ELSE {"ok"})

\* AdvancedSegmentTree<int> segTree(arr)
Construct ==
    /\ phase = "new"
    /\ \E nn \in 0..MaxN : \E arr \in [0..(nn - 1) -> Vals] :
         \E m \in {Constructor(arr, nn)} :
             /\ n' = nn
             /\ ref' = arr
             /\ tree' = m.tree
             /\ lazy' = m.lazy
             /\ probe' = Probe(m)
             /\ \E e \in Endings(m) :
                  /\ outcome' = e
                  /\ phase' = IF e = "ok" /\ ~Oob(m) THEN "live" ELSE "dead"
             /\ lastOp' = Call("build", 0, nn - 1, 0)
    /\ result' = 0
    /\ UNCHANGED <<steps, forked, treeB, lazyB, resultB, fenwick>>

\* The object a call on B runs on; B is left alone until it exists
MachA == Mach(tree, lazy)
MachB == Mach(treeB, lazyB)

\* A public call has run: on the tree with the run a, on B with the run b
Do(a, b, call) ==
    \E mA \in {a}, mB \in {b} :
    /\ tree' = mA.tree
    /\ lazy' = mA.lazy
    /\ result' = mA.ret
    /\ probe' = Probe(mA)
    /\ treeB' = mB.tree
    /\ lazyB' = mB.lazy
    /\ resultB' = mB.ret
    /\ \E e \in Endings(mA) :
         /\ outcome' = e
         /\ phase' = IF e = "ok" /\ ~Oob(mA) THEN "live" ELSE "dead"
    /\ lastOp' = call
    /\ steps' = steps + 1
    /\ UNCHANGED <<n, forked, fenwick>>

Ready == phase = "live" /\ steps < MaxOps

ValidRange(l, r) == 0 <= l /\ l <= r /\ r <= n - 1

\* void updateRange(int l, int r, T val)
UpdateRange ==
    /\ Ready
    /\ \E l \in 0..(n - 1), r \in 0..(n - 1), val \in Deltas :
         /\ ValidRange(l, r)
         /\ Do(updateRange(MachA, 1, 0, n - 1, l, r, val, 1),
               IF forked THEN updateRange(MachB, 1, 0, n - 1, l, r, val, 1) ELSE MachB,
               Call("updateRange", l, r, val))
         /\ ref' = [i \in 0..(n - 1) |->
                       IF l <= i /\ i <= r THEN ref[i] + val ELSE ref[i]]

\* T querySum(int l, int r)
QuerySum ==
    /\ Ready
    /\ \E l \in 0..(n - 1), r \in 0..(n - 1) :
         /\ ValidRange(l, r)
         /\ Do(querySum(MachA, n, l, r),
               IF forked THEN querySum(MachB, n, l, r) ELSE MachB,
               Call("querySum", l, r, 0))
         /\ UNCHANGED ref

\* void updatePoint(int idx, T val)
UpdatePoint ==
    /\ Ready
    /\ \E idx \in 0..(n - 1), val \in PointVals :
         /\ Do(updatePoint(MachA, 1, 0, n - 1, idx, val, 1),
               IF forked THEN updatePoint(MachB, 1, 0, n - 1, idx, val, 1) ELSE MachB,
               Call("updatePoint", idx, idx, val))
         /\ ref' = [ref EXCEPT ![idx] = val]

\* T queryMin(int l, int r)
QueryMin ==
    /\ Ready
    /\ \E l \in 0..(n - 1), r \in 0..(n - 1) :
         /\ ValidRange(l, r)
         /\ Do(queryMin(MachA, 1, 0, n - 1, l, r, 1),
               IF forked THEN queryMin(MachB, 1, 0, n - 1, l, r, 1) ELSE MachB,
               Call("queryMin", l, r, 0))
         /\ UNCHANGED ref

\* std::vector<T> getCurrentArray()
GetCurrentArray ==
    /\ Ready
    /\ Do(getCurrentArray(MachA, n),
          IF forked THEN getCurrentArray(MachB, n) ELSE MachB,
          Call("getCurrentArray", 0, n - 1, 0))
    /\ UNCHANGED ref

\* construction, the two updates and the sum query
Next ==
    \/ Construct
    \/ UpdateRange
    \/ UpdatePoint
    \/ QuerySum

Spec == Init /\ [][Next]_vars

\* the whole public interface
NextAll ==
    \/ Construct
    \/ UpdateRange
    \/ UpdatePoint
    \/ QuerySum
    \/ QueryMin
    \/ GetCurrentArray

SpecAll == Init /\ [][NextAll]_vars

\* ---- calls outside the documented domain ---------------------------------

\* querySum(l, r) with l > r, l < 0 or r >= n
BadQuerySum ==
    /\ Ready
    /\ \E l \in (-1)..n, r \in (-1)..n :
         /\ ~ValidRange(l, r)
         /\ Do(querySum(MachA, n, l, r),
               IF forked THEN querySum(MachB, n, l, r) ELSE MachB,
               Call("querySum", l, r, 0))
         /\ UNCHANGED ref

\* updatePoint(idx, val) with idx outside [0, n-1]
BadUpdatePoint ==
    /\ Ready
    /\ \E idx \in {-1, n}, val \in PointVals :
         /\ Do(updatePoint(MachA, 1, 0, n - 1, idx, val, 1),
               IF forked THEN updatePoint(MachB, 1, 0, n - 1, idx, val, 1) ELSE MachB,
               Call("updatePoint", idx, idx, val))
         /\ UNCHANGED ref

NextAny ==
    \/ Construct
    \/ UpdateRange
    \/ UpdatePoint
    \/ QuerySum
    \/ BadQuerySum
    \/ BadUpdatePoint

SpecAny == Init /\ [][NextAny]_vars

\* ---- materialise and rebuild ----------------------------------------------

\* B = AdvancedSegmentTree<int>(A.getCurrentArray())
Fork ==
    /\ phase = "live"
    /\ ~forked
    /\ \E g \in {getCurrentArray(MachA, n)} : \E b \in {Constructor(g.ret, n)} :
           /\ tree' = g.tree
           /\ lazy' = g.lazy
           /\ result' = g.ret
           /\ probe' = Probe(g)
           /\ treeB' = b.tree
           /\ lazyB' = b.lazy
           /\ resultB' = g.ret
    /\ forked' = TRUE
    /\ lastOp' = Call("rebuild", 0, n - 1, 0)
    /\ UNCHANGED <<phase, n, ref, outcome, steps, fenwick>>

NextReplay ==
    \/ Construct
    \/ UpdateRange
    \/ UpdatePoint
    \/ QuerySum
    \/ Fork

SpecReplay == Init /\ [][NextReplay]_vars

\* ---- the index tree on its own ---------------------------------------------

segVars == <<phase, n, tree, lazy, ref, lastOp, outcome, result, probe, steps,
             forked, treeB, lazyB, resultB>>

\* The index tree after a call that ran as b
BitDone(b, call, newRef) ==
    /\ fenwick' = [fenwick EXCEPT !.bit = b.bit, !.op = call, !.result = b.ret,
                                  !.acc = b.acc, !.ref = newRef,
                                  !.steps = @ + 1]
    /\ UNCHANGED segVars

BitNow == BitMach(fenwick.n, fenwick.bit)

BitReady == fenwick.live /\ fenwick.steps < MaxBitOps

\* BinaryIndexedTree<int> bit(arr)
BitConstruct ==
    /\ ~fenwick.live
    /\ \E nn \in 0..MaxN : \E arr \in [0..(nn - 1) -> Vals] :
         \E b \in {BitConstructor(arr, nn)} :
             fenwick' = [live |-> TRUE, n |-> nn, bit |-> b.bit, ref |-> arr,
                         op |-> Call("build", 0, nn - 1, 0), result |-> 0,
                         acc |-> b.acc, steps |-> 0]
    /\ UNCHANGED segVars

\* bit.update(idx, val)
BitUpdate ==
    /\ BitReady
    /\ \E idx \in 0..(fenwick.n - 1), val \in Deltas :
         BitDone(update(BitNow, idx, val), Call("update", idx, idx, val),
                 [fenwick.ref EXCEPT ![idx] = @ + val])

\* bit.query(idx)
BitQuery ==
    /\ BitReady
    /\ \E idx \in 0..(fenwick.n - 1) :
         BitDone(query(BitNow, idx), Call("query", 0, idx, 0), fenwick.ref)

\* bit.rangeQuery(l, r)
BitRangeQuery ==
    /\ BitReady
    /\ \E l \in 0..(fenwick.n - 1), r \in 0..(fenwick.n - 1) :
         /\ l <= r
         /\ BitDone(rangeQuery(BitNow, l, r), Call("rangeQuery", l, r, 0),
                    fenwick.ref)

NextBit ==
    \/ BitConstruct
    \/ BitUpdate
    \/ BitQuery
    \/ BitRangeQuery

SpecBit == Init /\ [][NextBit]_vars

\* ---- reference model -------------------------------------------------------

\* The nodes of the tree over [start, end] rooted at node, each with its range
RECURSIVE NodesUnder(_, _, _)
NodesUnder(node, start, end) ==
    IF start = end THEN {<<node, start, end>>}
    ELSE LET mid == CDiv(start + end, 2)
         IN  {<<node, start, end>>} \cup NodesUnder(2 * node, start, mid)
                 \cup NodesUnder(2 * node + 1, mid + 1, end)

Nodes(nn) == IF nn >= 1 THEN NodesUnder(1, 0, nn - 1) ELSE {}

\* the least k with 2^k >= x
RECURSIVE CeilLog2(_)
CeilLog2(x) == IF x <= 1 THEN 0 ELSE 1 + CeilLog2((x + 1) \div 2)

\* node b lies strictly below node a
RECURSIVE IsBelow(_, _)
IsBelow(a, b) == b > a /\ (b \div 2 = a \/ IsBelow(a, b \div 2))

\* the nodes at which updateRange(l, r, _) stops because [l, r] covers them:
\* their range lies in [l, r] and their parent's does not
Covered(nn, l, r) ==
    {x \in Nodes(nn) :
        /\ l <= x[2] /\ x[3] <= r
        /\ \A y \in Nodes(nn) : y[1] = x[1] \div 2 => ~(l <= y[2] /\ y[3] <= r)}

\* the pending deltas on the path from the root down to node, node included
RECURSIVE PathPending(_, _)
PathPending(z, node) ==
    IF node < 1 THEN 0 ELSE z[node] + PathPending(z, node \div 2)

\* The private call that the public call c makes, run on the vectors t, z with
\* every updateLazy logged
Traced(c, t, z, nn) ==
    LET m == [Mach(t, z) EXCEPT !.snap = TRUE]
    IN  CASE c.op = "updateRange" -> updateRange(m, 1, 0, nn - 1, c.l, c.r, c.val, 1)
          [] c.op = "updatePoint" -> updatePoint(m, 1, 0, nn - 1, c.l, c.val, 1)
          [] c.op = "querySum" -> queryRange(m, 1, 0, nn - 1, c.l, c.r, 1)
          [] c.op = "queryMin" -> queryMin(m, 1, 0, nn - 1, c.l, c.r, 1)

\* The elements as they are when the k-th updateLazy of a call returns, on the
\* range of its node: an update changes the elements of a node's range after
\* the first push-apply of that node (on entry) and before any later one
ElementsAt(log, k, before, after) ==
    IF \A j \in 1..(k - 1) : log[j].node # log[k].node THEN before ELSE after

\* every proper ancestor of node has pending 0
RECURSIVE CleanAbove(_, _)
CleanAbove(z, node) ==
    node = 1 \/ (z[node \div 2] = 0 /\ CleanAbove(z, node \div 2))

\* a[l] + ... + a[r]
RECURSIVE SumRange(_, _, _)
SumRange(a, l, r) == IF l > r THEN 0 ELSE a[l] + SumRange(a, l + 1, r)

\* the least of a[l], ..., a[r]
RECURSIVE MinRange(_, _, _)
MinRange(a, l, r) == IF l >= r THEN a[l] ELSE Min(a[l], MinRange(a, l + 1, r))

\* what querySum(l, r) would return if called on the object (t, z)
SumOf(t, z, nn, l, r) == querySum(Mach(t, z), nn, l, r).ret

\* what queryMin(l, r) would return if called on the object (t, z)
MinOf(t, z, nn, l, r) == queryMin(Mach(t, z), 1, 0, nn - 1, l, r, 1).ret

Ranges(nn) == {p \in (0..(nn - 1)) \X (0..(nn - 1)) : p[1] <= p[2]}

\* ---- claims ------------------------------------------------------------------

\* C1: after construction from a sequence of length n >= 1 and any valid
\* updateRange / updatePoint calls, querySum(l, r) returns, for every
\* 0 <= l <= r <= n-1, the sum over [l, r] of the reference array (delta added
\* on [l, r] by every updateRange, element idx overwritten by every updatePoint).
C1_QuerySumMatchesReference ==
    phase = "live" =>
        /\ \A p \in Ranges(n) : SumOf(tree, lazy, n, p[1], p[2]) = SumRange(ref, p[1], p[2])
        /\ lastOp.op = "querySum" => result = SumRange(ref, lastOp.l, lastOp.r)

\* a range sum over updated elements, answered while a delta of an earlier
\* range update is still pending below
C1_Witness ==
    /\ phase = "live"
    /\ lastOp.op = "querySum"
    /\ lastOp.l < lastOp.r
    /\ \E i \in DOMAIN lazy : lazy[i] # 0
    /\ \E i \in lastOp.l..lastOp.r : ref[i] \notin Vals

\* C2: right after the tree is built from a sequence, querySum(0, n-1) is the
\* arithmetic sum of that sequence.
C2_BuildCorrectness ==
    (lastOp.op = "build" /\ phase = "live") =>
        SumOf(tree, lazy, n, 0, n - 1) = SumRange(ref, 0, n - 1)

C2_Witness ==
    /\ lastOp.op = "build"
    /\ phase = "live"
    /\ n >= 3
    /\ SumRange(ref, 0, n - 1) >= 2

\* C3: updateRange(l, r, delta) with valid l <= r raises querySum(l, r) by
\* exactly delta * (r - l + 1) and leaves querySum over every valid range
\* disjoint from [l, r] as it was before the call.
C3_RangeAddAdditivity ==
    [][lastOp'.op = "updateRange" =>
          LET l == lastOp'.l
              r == lastOp'.r
              delta == lastOp'.val
          IN  /\ SumOf(tree', lazy', n, l, r)
                     = SumOf(tree, lazy, n, l, r) + delta * (r - l + 1)
              /\ \A p \in Ranges(n) :
                     (p[2] < l \/ p[1] > r) =>
                         SumOf(tree', lazy', n, p[1], p[2])
                             = SumOf(tree, lazy, n, p[1], p[2])]_vars

\* a range update over more than one element, with an element outside it,
\* applied to a tree that already held pending deltas
C3_Witness ==
    /\ lastOp.op = "updateRange"
    /\ steps >= 2
    /\ lastOp.l < lastOp.r
    /\ (0 < lastOp.l \/ lastOp.r < n - 1)
    /\ probe.pushed # {}

\* C4: updatePoint(idx, v) with 0 <= idx <= n-1 makes querySum(idx, idx) = v,
\* also when nodes above the leaf of idx hold pending deltas, and leaves
\* querySum(j, j) of every other index j as it was before the call.
C4_PointSetExactness ==
    [][lastOp'.op = "updatePoint" =>
          LET idx == lastOp'.l
              v == lastOp'.val
          IN  /\ SumOf(tree', lazy', n, idx, idx) = v
              /\ \A j \in 0..(n - 1) :
                     j # idx => SumOf(tree', lazy', n, j, j) = SumOf(tree, lazy, n, j, j)]_vars

\* a point update of index 0 in a tree of three elements, where node 2 (range
\* [0, 1], the parent of the leaf of index 0) held a pending delta
C4_Witness ==
    /\ lastOp.op = "updatePoint"
    /\ n = 3
    /\ lastOp.l = 0
    /\ 2 \in probe.pushed

\* C5: a querySum call with l > r, l < 0 or r >= n fails with an InvalidRange
\* error instead of returning a value.
C5_InvalidRangeRejected ==
    (lastOp.op = "querySum" /\ ~ValidRange(lastOp.l, lastOp.r)) =>
        outcome = "InvalidRange"

\* C6: an updatePoint call with idx outside [0, n-1] fails with an
\* InvalidIndex error at the call.
C6_InvalidIndexRejected ==
    (lastOp.op = "updatePoint" /\ lastOp.l \notin 0..(n - 1)) =>
        outcome = "InvalidIndex"

\* C7: construction from the empty sequence is rejected with EmptySequence or
\* returns a zero-size tree; build neither recurses without end nor touches
\* an index outside the allocated storage.
C7_EmptyBuildIsSafe ==
    (lastOp.op = "build" /\ n = 0) =>
        /\ outcome \in {"EmptySequence", "ok"}
        /\ probe.acc \subseteq DOMAIN tree
        /\ ~probe.over

\* C8: queryMin(l, r) with valid l <= r returns the least of the current
\* elements at indices l..r.
C8_QueryMinIsMinimum ==
    (lastOp.op = "queryMin" /\ phase = "live") =>
        result = MinRange(ref, lastOp.l, lastOp.r)

\* C9: updateRange(l, r, delta) with valid l <= r shifts the value of
\* queryMin(l, r) by exactly delta.
C9_MinShiftsByDelta ==
    [][lastOp'.op = "updateRange" =>
          MinOf(tree', lazy', n, lastOp'.l, lastOp'.r)
              = MinOf(tree, lazy, n, lastOp'.l, lastOp'.r) + lastOp'.val]_vars

\* C10: once B is built from A.getCurrentArray(), the same valid calls
\* replayed on A and on B return the same querySum results at every step.
C10_RebuildEquivalent ==
    forked =>
        /\ \A p \in Ranges(n) :
               SumOf(tree, lazy, n, p[1], p[2]) = SumOf(treeB, lazyB, n, p[1], p[2])
        /\ lastOp.op = "querySum" => result = resultB

\* a range sum answered by both trees after a range update was replayed on
\* both and left deltas pending in each
C10_Witness ==
    /\ forked
    /\ lastOp.op = "querySum"
    /\ lastOp.l < lastOp.r
    /\ result = resultB
    /\ \E i \in lastOp.l..lastOp.r : ref[i] \notin Vals
    /\ \E i \in DOMAIN lazy : lazy[i] # 0
    /\ \E i \in DOMAIN lazyB : lazyB[i] # 0

\* C11: querySum, queryMin and getCurrentArray may rewrite tree and lazy, but
\* leave the answer of every later querySum as it was; getCurrentArray
\* returns the reference sequence, and a querySum(l, r) repeated right after
\* itself returns the same value.
C11_QueriesObservationallyReadOnly ==
    [][lastOp'.op \in {"querySum", "queryMin", "getCurrentArray"} =>
          /\ \A p \in Ranges(n) :
                 SumOf(tree', lazy', n, p[1], p[2]) = SumOf(tree, lazy, n, p[1], p[2])
          /\ lastOp'.op = "getCurrentArray" => result' = ref
          /\ lastOp'.op = "querySum" =>
                 SumOf(tree', lazy', n, lastOp'.l, lastOp'.r) = result']_vars

\* a query that did push-apply pending deltas, so that tree and lazy changed
C11_Witness ==
    /\ lastOp.op \in {"querySum", "queryMin", "getCurrentArray"}
    /\ phase = "live"
    /\ probe.pushed # {}
    /\ \E i \in DOMAIN ref : ref[i] \notin Vals

\* C12: on an index tree built from a sequence and updated any number of
\* times, query(idx) is the sum of the reference elements 0..idx.
C12_BitPrefixSum ==
    fenwick.live =>
        /\ \A idx \in 0..(fenwick.n - 1) :
               query(BitNow, idx).ret = SumRange(fenwick.ref, 0, idx)
        /\ fenwick.op.op = "query" =>
               fenwick.result = SumRange(fenwick.ref, 0, fenwick.op.r)

\* a prefix query past the first element, after an update inside the prefix
C12_Witness ==
    /\ fenwick.live
    /\ fenwick.op.op = "query"
    /\ fenwick.op.r >= 1
    /\ \E i \in 0..fenwick.op.r : fenwick.ref[i] \notin Vals

\* C13: rangeQuery(l, r) is query(r) - query(l - 1), with query(-1) = 0: the
\* sum of the reference elements l..r, also for l = 0, and no slot of bit at
\* index 0 or below is used.
C13_BitRangeQuery ==
    fenwick.live =>
        /\ \A p \in Ranges(fenwick.n) :
               LET q == rangeQuery(BitNow, p[1], p[2])
               IN  /\ q.ret = query(BitNow, p[2]).ret - query(BitNow, p[1] - 1).ret
                   /\ q.ret = SumRange(fenwick.ref, p[1], p[2])
                   /\ q.acc \subseteq 1..fenwick.n
        /\ query(BitNow, -1).ret = 0
        /\ query(BitNow, -1).acc = {}
        /\ fenwick.op.op = "rangeQuery" =>
               /\ fenwick.result = SumRange(fenwick.ref, fenwick.op.l, fenwick.op.r)
               /\ fenwick.acc \subseteq 1..fenwick.n

\* rangeQuery(0, r) and rangeQuery(l, r) with l > 0 have both been answered
\* after an update
C13_Witness ==
    /\ fenwick.live
    /\ fenwick.op.op = "rangeQuery"
    /\ fenwick.op.l = 0
    /\ fenwick.op.r >= 1
    /\ \E i \in DOMAIN fenwick.ref : fenwick.ref[i] \notin Vals

\* C14 as stated: between public calls, at every node whose ancestors all have
\* pending 0 the aggregate is the true sum of the node's range, whether or not
\* the node's own pending is 0.
C14_AggregateIncludesOwnPending ==
    phase = "live" =>
        \A x \in Nodes(n) :
            CleanAbove(lazy, x[1]) => tree[x[1]] = SumRange(ref, x[2], x[3])

\* C14 amended: between public calls, at every node whose ancestors all have
\* pending 0, the aggregate plus the node's own pending times the size of its
\* range is the true sum of the range; the aggregate alone is the true sum
\* where the node's own pending is 0.
C14_AggregatePlusOwnPending ==
    phase = "live" =>
        \A x \in Nodes(n) :
            CleanAbove(lazy, x[1]) =>
                tree[x[1]] + lazy[x[1]] * (x[3] - x[2] + 1) = SumRange(ref, x[2], x[3])

\* a node below clean ancestors carries a pending delta of its own
C14_Witness ==
    /\ phase = "live"
    /\ \E x \in Nodes(n) :
           /\ x[1] > 1
           /\ CleanAbove(lazy, x[1])
           /\ lazy[x[1]] # 0

\* C16: between public calls, the aggregate of every internal node is the sum,
\* over its two children, of the child's aggregate plus the child's pending
\* times the size of the child's range.
C16_ParentFromChildren ==
    phase = "live" =>
        \A x \in Nodes(n) :
            x[2] # x[3] =>
                LET mid == CDiv(x[2] + x[3], 2)
                    lt == 2 * x[1]
                    rt == 2 * x[1] + 1
                IN  tree[x[1]] = (tree[lt] + lazy[lt] * (mid - x[2] + 1))
                                   + (tree[rt] + lazy[rt] * (x[3] - mid))

\* an internal node both of whose children carry a pending delta, after a
\* second update that covered only a part of the node
C16_Witness ==
    /\ phase = "live"
    /\ steps >= 2
    /\ lastOp.op = "updateRange"
    /\ lastOp.l # lastOp.r
    /\ \E x \in Nodes(n) :
           /\ x[2] # x[3]
           /\ lazy[2 * x[1]] # 0
           /\ lazy[2 * x[1] + 1] # 0

\* C17: one updateLazy on a node with pending p # 0 adds p * (end - start + 1)
\* to the node's aggregate, adds p to the pending of each child if and only if
\* the node is not a leaf, sets the node's pending to 0 and changes nothing
\* else; on a node with pending 0 it changes nothing.
C17_PushApplyExact ==
    phase = "live" =>
        \A x \in Nodes(n) :
            LET node == x[1]
                p == lazy[node]
                m == updateLazy(MachA, node, x[2], x[3])
                kids == IF x[2] # x[3] THEN {2 * node, 2 * node + 1} ELSE {}
            IN  IF p # 0
                THEN /\ m.tree = [tree EXCEPT ![node] = @ + p * (x[3] - x[2] + 1)]
                     /\ m.lazy = [i \in DOMAIN lazy |->
                                     IF i = node THEN 0
                                     ELSE IF i \in kids THEN lazy[i] + p
                                     ELSE lazy[i]]
                ELSE m.tree = tree /\ m.lazy = lazy

\* a state where a leaf and an internal node both carry a pending delta
C17_Witness ==
    /\ phase = "live"
    /\ \E x \in Nodes(n) : x[2] # x[3] /\ lazy[x[1]] # 0
    /\ \E x \in Nodes(n) : x[2] = x[3] /\ lazy[x[1]] # 0
    /\ \E x \in Nodes(n) : lazy[x[1]] = 0

\* C19: for n >= 1, every index at which construction or a public call with
\* valid arguments reads or writes tree or lazy lies in [1, 4n - 1], inside
\* the storage allocated at construction.
C19_IndicesInsideStorage ==
    (n >= 1 /\ lastOp.op # "none") =>
        /\ probe.acc \subseteq 1..(4 * n - 1)
        /\ probe.acc \subseteq DOMAIN tree
        /\ probe.acc \subseteq DOMAIN lazy
        /\ outcome = "ok"

\* a call on a tree over a non-power-of-two n that went down to the deepest
\* leaf
C19_Witness ==
    /\ phase = "live"
    /\ n = 3
    /\ lastOp.op \in {"updateRange", "updatePoint", "querySum", "queryMin",
                      "getCurrentArray"}
    /\ \E x \in Nodes(n) : x[2] = x[3] /\ x[1] > n /\ x[1] \in probe.acc

\* C20: for n >= 1, every updateRange, updatePoint, querySum and queryMin with
\* valid arguments returns, and its descent from the root is never deeper than
\* ceil(log2(n)) + 1 nodes.
C20_DepthLogarithmic ==
    (n >= 1 /\ lastOp.op \in {"updateRange", "updatePoint", "querySum", "queryMin"}) =>
        /\ ~probe.over
        /\ outcome = "ok"
        /\ probe.deep <= CeilLog2(n) + 1

\* a call whose descent reached the bound, on n that is no power of two
C20_Witness ==
    /\ phase = "live"
    /\ n = 3
    /\ lastOp.op \in {"updateRange", "updatePoint", "querySum", "queryMin"}
    /\ probe.deep = CeilLog2(n) + 1

\* C18 as stated: on a node whose range updateRange(l, r, delta) finds fully
\* inside [l, r], the call changes the aggregate by delta * rangeSize, leaves
\* the pending at 0, adds delta to the children's pending if the node is not a
\* leaf, and neither reads nor writes the aggregate of a proper descendant.
C18_CoveredNodeByDelta ==
    [][lastOp'.op = "updateRange" =>
          \A x \in Covered(n, lastOp'.l, lastOp'.r) :
              LET node == x[1]
                  size == x[3] - x[2] + 1
              IN  /\ tree'[node] = tree[node] + lastOp'.val * size
                  /\ lazy'[node] = 0
                  /\ x[2] # x[3] =>
                         /\ lazy'[2 * node] = lazy[2 * node] + lastOp'.val
                         /\ lazy'[2 * node + 1] = lazy[2 * node + 1] + lastOp'.val
                  /\ \A i \in probe'.tacc : ~IsBelow(node, i)]_vars

\* C18 amended: with P the pending the node and its ancestors carried before
\* the call, the call changes the aggregate of a fully covered node by
\* (P + delta) * rangeSize, leaves its pending at 0, adds P + delta to the
\* children's pending if the node is not a leaf, and neither reads nor writes
\* the aggregate of a proper descendant, whose aggregates stay as they were.
C18_CoveredNodeDeferred ==
    [][lastOp'.op = "updateRange" =>
          \A x \in Covered(n, lastOp'.l, lastOp'.r) :
              LET node == x[1]
                  size == x[3] - x[2] + 1
                  P == PathPending(lazy, node)
              IN  /\ tree'[node] = tree[node] + (P + lastOp'.val) * size
                  /\ lazy'[node] = 0
                  /\ x[2] # x[3] =>
                         /\ lazy'[2 * node] = lazy[2 * node] + P + lastOp'.val
                         /\ lazy'[2 * node + 1] = lazy[2 * node + 1] + P + lastOp'.val
                  /\ \A i \in probe'.tacc : ~IsBelow(node, i)
                  /\ \A y \in Nodes(n) : IsBelow(node, y[1]) => tree'[y[1]] = tree[y[1]]]_vars

\* a second updateRange has covered an internal node below the root that
\* carried a pending delta, so its children now hold more than the call's delta
C18_Witness ==
    /\ phase = "live"
    /\ steps >= 2
    /\ lastOp.op = "updateRange"
    /\ \E x \in Covered(n, lastOp.l, lastOp.r) :
           /\ x[1] > 1
           /\ x[2] # x[3]
           /\ lazy[2 * x[1]] # lastOp.val
           /\ lazy[2 * x[1]] # 0

\* C15: whenever updateRange, updatePoint, queryRange or queryMin has just
\* push-applied a node on its descent from the root, the node's aggregate is
\* the true sum of the current elements of its range and its pending is 0, and
\* every descendant whose aggregate is not the true sum of its range has
\* non-zero pending on itself or on a node between it and the pushed node.
C15_PushedNodeIsExact ==
    [][lastOp'.op \in {"updateRange", "updatePoint", "querySum", "queryMin"} =>
          \A run \in {Traced(lastOp', tree, lazy, n)} :
              /\ run.tree = tree'
              /\ run.lazy = lazy'
              /\ \A k \in 1..Len(run.log) :
                   \A ev \in {run.log[k]} :
                   \A cur \in {ElementsAt(run.log, k, ref, ref')} :
                   \A below \in {NodesUnder(ev.node, ev.start, ev.end)
                                     \ {<<ev.node, ev.start, ev.end>>}} :
                       /\ ev.tree[ev.node] = SumRange(cur, ev.start, ev.end)
                       /\ ev.lazy[ev.node] = 0
                       /\ \A y \in below :
                              ev.tree[y[1]] # SumRange(cur, y[2], y[3]) =>
                                  \E w \in below :
                                      /\ w[1] = y[1] \/ IsBelow(w[1], y[1])
                                      /\ ev.lazy[w[1]] # 0]_vars

\* a call that push-applied a non-zero pending at an internal node below the
\* root and at a leaf, after an earlier update
C15_Witness ==
    /\ phase = "live"
    /\ steps >= 2
    /\ lastOp.op \in {"updateRange", "updatePoint", "querySum", "queryMin"}
    /\ \E x \in Nodes(n) : x[1] > 1 /\ x[2] # x[3] /\ x[1] \in probe.pushed
    /\ \E x \in Nodes(n) : x[2] = x[3] /\ x[1] \in probe.pushed

====
